---- MODULE Spec2Model ----
(***************************************************************************)
(* Execution & Observability Core of the Agent Design Playground.          *)
(*                                                                         *)
(* The host (App.tsx) starts runs with handleRun, which calls executeCode  *)
(* (services/geminiService.ts).  executeCode patches window.console,       *)
(* installs the hooks __setGraphDefinition / promptUser / confirmUser on   *)
(* window, imports the program as a one-shot module and restores           *)
(* everything in a finally block.  The program is ordinary asynchronous    *)
(* code: each of its calls looks the console function or hook up on        *)
(* window at the moment of the call.                                       *)
(*                                                                         *)
(* Scheduling is the browser's: one handler runs to completion, and the    *)
(* promise continuations it makes ready (microtasks) run before the next   *)
(* event is taken.                                                         *)
(***************************************************************************)
EXTENDS Integers, Sequences, FiniteSets, TLC

\* ---------------------------------------------------------------- bounds
MaxRuns == 2        \* executeCode invocations in one behaviour
MaxCalls == 2       \* console / publish / bridge calls the programs make
MaxSpans == 3       \* spans in one span list
MaxTime == 2        \* largest value of Date.now() / startTime / endTime
MaxDecls == 2       \* pieces (declarations, other text) of one source text

\* ------------------------------------------------------------- constants
RunIds == 1..MaxRuns      \* crypto.randomUUID() of handleRun: never repeats
NoRun == 0                \* executionIdRef.current === null
Native == 0               \* the browser's own console function
Absent == 0               \* a property deleted from / never set on window
NoRequest == 0            \* userInputRequest === null

Methods == {"log", "info", "warn", "error", "debug"}
\* the console methods the programs of the model call
CallMethods == {"log", "error"}
HookNames == {"setGraphDefinition", "promptUser", "confirmUser"}
RequestTypes == {"text", "confirm"}

\* JavaScript values that can be handed to a request's resolve callback,
\* written as their source literals.
JSValues == {"null", "undefined", "true", "false", "''", "'yes'", "0", "1"}
\* what the textarea of UserInputPanel can hold on submit
TextValues == {"'yes'"}

\* geminiApiKey strings, as sequences of characters: nothing saved yet, and
\* the keys the settings dialog is used to save
NoKey == << >>
Keys == {<<" ">>, <<"k">>}

\* messages of errors a program throws, as sequences of lower-case words
ErrMsgs == {<<"boom">>, <<"api", "error:", "401">>, <<"quota">>}
ReferenceErrorMsg == <<"is", "not", "defined">>
NoError == << >>

\* graph payloads a program hands to __setGraphDefinition: the JSON text of
\* its tracer's span list, or text that is not JSON
SpanOf(i) == [run |-> i, id |-> 1]
Payloads(i) == {[json |-> TRUE, spans |-> <<SpanOf(i)>>],
                [json |-> TRUE, spans |-> << >>],
                [json |-> FALSE, spans |-> << >>]}
NullSpans == [null |-> TRUE, spans |-> << >>]

\* ------------------------------------------------------- spans (types.ts)
\* Span.id values: ids are opaque and only compared for equality, so the
\* spans of a list are numbered in the order their ids were made
SpanIds == 1..MaxSpans
Times == 0..MaxTime
\* Span.endTime is optional: the value of an absent endTime
NoEndTime == -1
\* Span.parentId: string | null | string[]
NullParent == [kind |-> "null", ids |-> << >>]
OneParent(p) == [kind |-> "id", ids |-> <<p>>]
ManyParents(ps) == [kind |-> "array", ids |-> ps]
\* span names, as sequences of characters
Names == {<<"a">>, <<"b", "-">>, <<"b", "_">>}
\* values a program hands to endSpan as output, as source literals
Outputs == {"'x'", "'y'"}
NullOutput == "null"

VARIABLES
  \* host (App.tsx)
  status, executionIdRef, logs, runtimeSpans, userInputRequest, apiError,
  geminiApiKey, logLevel,
  \* window
  console, hooks, processEnv,
  \* per executeCode invocation (one per run id): the console functions it
  \* captured, and where the invocation is
  originalConsole, phase,
  \* the error a program threw, until the host has caught it
  err,
  \* number of console / publish / bridge calls the programs have made
  calls,
  \* per program, the InputRequest and promise of the bridge call it made
  \* last and has not yet read the result of
  requests,
  \* SimpleTracer: this.spans, also the list handed to the renderers;
  \* Date.now(); what the last startSpan / endSpan call returned
  spans, clock, ret,
  \* the lines generateRuntimeDAG and generateRuntimeSequence returned last
  dag, seq,
  \* the source text handed to parseCodeToMermaid, and what it returned last
  code, staticDef

hostVars == <<status, executionIdRef, logs, runtimeSpans, userInputRequest,
              apiError, geminiApiKey, logLevel>>
winVars == <<console, hooks, processEnv>>
execVars == <<originalConsole, phase>>
traceVars == <<spans, clock, ret, dag, seq>>
inferVars == <<code, staticDef>>
vars == <<hostVars, winVars, execVars, err, calls, requests, traceVars,
          inferVars>>

(***************************************************************************)
(* phase[i], the position of invocation i:                                 *)
(*   "none"       not started                                              *)
(*   "running"    inside `await import(url)`, program executing            *)
(*   "awaiting"   inside `await import(url)`, program awaiting a promise   *)
(*                of the Interaction Bridge                                *)
(*   "finished"   the import fulfilled, finally block not yet run          *)
(*   "threw"      the import rejected, finally block not yet run           *)
(*   "fulfilled"  finally block done, executeCode's promise fulfilled,     *)
(*                handleRun not yet resumed                                *)
(*   "rejected"   finally block done, executeCode's promise rejected,      *)
(*                handleRun not yet resumed                                *)
(*   "done"       handleRun has run its try / catch / finally              *)
(***************************************************************************)
Phases == {"none", "running", "awaiting", "finished", "threw", "fulfilled",
           "rejected", "done"}

\* ---------------------------------------------------------------- helpers
Range(s) == {s[k] : k \in 1..Len(s)}

\* String.prototype.trim() === ''
RECURSIVE TrimStart(_)
TrimStart(s) == IF s = << >> THEN s
                ELSE IF Head(s) = " " THEN TrimStart(Tail(s)) ELSE s
\* (variant: only the empty string counts as blank)
IsEmpty(key) == key = << >>
IsBlank(key) == TrimStart(key) = << >>

\* lowerMsg.includes(word), for the words the host looks for
Includes(msg, word) == word \in Range(msg)
isAuthError(msg) == \/ Includes(msg, "401") \/ Includes(msg, "403")
                    \/ Includes(msg, "api_key_invalid")
                    \/ Includes(msg, "unauthorized")
isQuotaError(msg) == \/ Includes(msg, "429") \/ Includes(msg, "quota")
                     \/ Includes(msg, "limit")

\* the type intercept is called with, per patched console method
LogType(m) == CASE m = "log" -> "verbose"
                [] m = "info" -> "info"
                [] m = "warn" -> "warn"
                [] m = "error" -> "error"
                [] m = "debug" -> "system"

CapturedTag(type) == CASE type = "verbose" -> "[Captured verbose]"
                       [] type = "info" -> "[Captured info]"
                       [] type = "warn" -> "[Captured warn]"
                       [] type = "error" -> "[Captured error]"
                       [] type = "system" -> "[Captured system]"

LogRecord(type, content) == [type |-> type, content |-> content]

\* the onLog callback handleRun passes for run id: keeps the record only
\* while that run is the current one
onLog(id, lg, rec) == IF executionIdRef = id THEN Append(lg, rec) ELSE lg

\* intercept of invocation h (or the native function): builds one record,
\* hands it to onLog, then calls originalConsole.log, which is whatever
\* console.log was when invocation h began
RECURSIVE intercept(_, _, _, _)
intercept(h, type, args, lg) ==
  IF h = Native THEN lg
  ELSE intercept(originalConsole[h]["log"], "verbose",
                 <<CapturedTag(type)>> \o args,
                 onLog(h, lg, LogRecord(type, args)))

\* a call of window.console[m](args) made now
ConsoleCall(m, args, lg) == intercept(console[m], LogType(m), args, lg)

addSystemLog(lg, type, content) == Append(lg, LogRecord(type, content))

\* the resolve callbacks of the two bridge entry points
promptResolve(val) == val
ToBoolean(val) == IF val \in {"null", "undefined", "false", "''", "0"}
                  THEN "false" ELSE "true"
\* (variant: the value is handed on without `!!`)
confirmResolveRaw(val) == val
confirmResolve(val) == ToBoolean(val)

\* the InputRequest and promise one bridge call creates; a program awaits
\* each one before it does anything else, so the program that made the
\* call identifies the request
\* (variant: the promise is settled by the bridge itself, at once)
NewRequestSettled(type) ==
  [type |-> type, state |-> "fulfilled", value |-> "undefined"]
NewRequest(type) == [type |-> type, state |-> "pending", value |-> "undefined"]
NoPromise == [type |-> "none", state |-> "none", value |-> "undefined"]

Started == {i \in RunIds : phase[i] # "none"}

\* the continuation of an await runs once its promise is settled
awaitDone(r) == requests[r].state \in {"fulfilled", "rejected"}

\* a promise continuation is ready: it runs before any other event
MicrotaskPending ==
  \E i \in RunIds :
    \/ phase[i] \in {"finished", "threw", "fulfilled", "rejected"}
    \/ phase[i] = "awaiting" /\ awaitDone(i)

\* the API error dialog (ConfirmModal) covers the page while it is open
DialogOpen == apiError # "none"
UserCanAct == ~MicrotaskPending /\ ~DialogOpen

\* ------------------------------------------------------------------- Init
\* the host and window before any run
HostInit ==
  /\ status = "IDLE"
  /\ executionIdRef = NoRun
  /\ logs = << >>
  /\ runtimeSpans = NullSpans
  /\ userInputRequest = NoRequest
  /\ apiError = "none"
  /\ geminiApiKey = NoKey
  /\ logLevel = "DEBUG"
  /\ console = [m \in Methods |-> Native]
  /\ hooks = [h \in HookNames |-> Absent]
  /\ processEnv = NoKey
  /\ originalConsole = [i \in RunIds |-> [m \in Methods |-> Native]]
  /\ phase = [i \in RunIds |-> "none"]
  /\ err = [i \in RunIds |-> NoError]
  /\ calls = 0
  /\ requests = [i \in RunIds |-> NoPromise]

\* ... and a tracer that holds no span, with nothing rendered
Init ==
  /\ HostInit
  /\ spans = << >>
  /\ clock = 0
  /\ ret = << >>
  /\ dag = << >>
  /\ seq = << >>
  /\ code = << >>
  /\ staticDef = << >>

\* -------------------------------------------------- executeCode (service)
\* process.env.API_KEY of the build; customApiKey || process.env.API_KEY || ''
BuildApiKey == << >>
OrElse(a, b) == IF a # << >> THEN a ELSE b
InjectedKey(customApiKey) == OrElse(customApiKey, OrElse(BuildApiKey, << >>))

\* steps 2-5 of executeCode for invocation id: capture the console
\* functions installed now, patch all five, install the three hooks
patchConsole(id) == [m \in Methods |-> id]
installHooks(id) == [h \in HookNames |-> id]

executeCodeSetup(id, customApiKey) ==
  /\ processEnv' = InjectedKey(customApiKey)
  /\ originalConsole' = [originalConsole EXCEPT ![id] = console]
  /\ console' = patchConsole(id)
  /\ hooks' = installHooks(id)
  /\ phase' = [phase EXCEPT ![id] = "running"]

\* the finally block: what window.console and the hooks are afterwards
\* (variant: console.debug is left out of the restore)
restoreConsoleButDebug(i) ==
  [originalConsole[i] EXCEPT !["debug"] = console["debug"]]
restoreConsole(i) == originalConsole[i]
deleteHooks == [h \in HookNames |-> Absent]
\* how executeCode's promise settles after the finally block
\* (variant: the error of the import is swallowed)
settleSwallows(importOutcome) == "fulfilled"
settle(importOutcome) == IF importOutcome = "threw" THEN "rejected"
                         ELSE "fulfilled"

\* `await import(url)` has settled: the finally block runs, then the
\* promise of executeCode settles the way the import did
Teardown(i) ==
  /\ phase[i] \in {"finished", "threw"}
  /\ console' = restoreConsole(i)
  /\ hooks' = deleteHooks
  /\ phase' = [phase EXCEPT ![i] = settle(phase[i])]
  /\ UNCHANGED <<hostVars, processEnv, originalConsole, err, calls, requests>>
  /\ UNCHANGED <<traceVars, inferVars>>

\* ------------------------------------------------------- host (App.tsx)
\* handleRun up to `await executeCode(...)`, executeCode's synchronous part
\* included
handleRun ==
  /\ UserCanAct
  /\ status # "RUNNING"
  /\ IF IsBlank(geminiApiKey)
     THEN /\ apiError' = "Gemini API Key Required"
          /\ UNCHANGED <<status, executionIdRef, logs, runtimeSpans,
                         userInputRequest, geminiApiKey, winVars, execVars,
                         err, calls, requests>>
     ELSE /\ Cardinality(Started) < MaxRuns
          /\ LET currentRunId == Cardinality(Started) + 1
             IN /\ executionIdRef' = currentRunId
                /\ status' = "RUNNING"
                /\ logs' = addSystemLog(<< >>, "system",
                             <<"Initializing Execution Environment...">>)
                /\ runtimeSpans' = NullSpans
                /\ userInputRequest' = NoRequest
                /\ executeCodeSetup(currentRunId, geminiApiKey)
          /\ UNCHANGED <<apiError, geminiApiKey, err, calls, requests>>
  /\ UNCHANGED <<logLevel, traceVars, inferVars>>

apiErrorFor(msg, old) == IF isAuthError(msg) THEN "Invalid API Key"
                         ELSE IF isQuotaError(msg) THEN "API Quota Exceeded"
                         ELSE old

\* the guard `executionIdRef.current === currentRunId` of the closures and
\* continuation of run id
\* (variant: the continuation does not compare run ids)
isCurrentAlways(id) == TRUE
isCurrent(id) == executionIdRef = id

\* the rest of handleRun, after executeCode settled: try / catch / finally
handleRunSettled(i) ==
  /\ phase[i] \in {"fulfilled", "rejected"}
  /\ phase' = [phase EXCEPT ![i] = "done"]
  /\ err' = [err EXCEPT ![i] = NoError]
  /\ IF isCurrent(i)
     THEN /\ IF phase[i] = "fulfilled"
             THEN /\ logs' = addSystemLog(logs, "system",
                               <<"Graph execution finished.">>)
                  /\ status' = "SUCCESS"
                  /\ apiError' = apiError
             ELSE /\ logs' = addSystemLog(logs, "error",
                               <<"Runtime Error:">> \o err[i])
                  /\ status' = "ERROR"
                  /\ apiError' = apiErrorFor(err[i], apiError)
          /\ executionIdRef' = NoRun
          /\ userInputRequest' = NoRequest
     ELSE UNCHANGED <<logs, status, apiError, executionIdRef,
                      userInputRequest>>
  /\ UNCHANGED <<runtimeSpans, geminiApiKey, winVars, originalConsole, calls,
                 requests>>
  /\ UNCHANGED <<logLevel, traceVars, inferVars>>

\* request.resolve(val): fulfils the promise the bridge returned
resolveRequest(r, val) ==
  LET req == requests[r]
      settled == IF req.type = "confirm" THEN confirmResolve(val)
                 ELSE promptResolve(val)
  IN IF req.state # "pending" THEN requests
     ELSE [requests EXCEPT ![r] = [req EXCEPT !.state = "fulfilled",
                                              !.value = settled]]

\* the Stop button is rendered only while status is RUNNING
handleStop ==
  /\ UserCanAct
  /\ status = "RUNNING"
  /\ executionIdRef # NoRun
  /\ logs' = addSystemLog(logs, "system", <<"Execution stopped by user.">>)
  /\ executionIdRef' = NoRun
  /\ status' = "IDLE"
  /\ userInputRequest' = NoRequest
  /\ UNCHANGED <<runtimeSpans, apiError, geminiApiKey, winVars, execVars,
                 err, calls, requests>>
  /\ UNCHANGED <<logLevel, traceVars, inferVars>>

handleUserSubmit(value) ==
  /\ UserCanAct
  /\ userInputRequest # NoRequest
  /\ requests' = resolveRequest(userInputRequest, value)
  /\ userInputRequest' = NoRequest
  /\ UNCHANGED <<status, executionIdRef, logs, runtimeSpans, apiError,
                 geminiApiKey, winVars, execVars, err, calls>>
  /\ UNCHANGED <<logLevel, traceVars, inferVars>>

handleUserCancel ==
  /\ UserCanAct
  /\ userInputRequest # NoRequest
  /\ requests' = resolveRequest(userInputRequest, "null")
  /\ userInputRequest' = NoRequest
  /\ UNCHANGED <<status, executionIdRef, logs, runtimeSpans, apiError,
                 geminiApiKey, winVars, execVars, err, calls>>
  /\ UNCHANGED <<logLevel, traceVars, inferVars>>

\* UserInputPanel.handleSubmit: the Submit button / Enter key
panelSubmit ==
  /\ userInputRequest # NoRequest
  /\ IF requests[userInputRequest].type = "confirm"
     THEN handleUserSubmit("true")
     ELSE \E value \in TextValues : handleUserSubmit(value)

\* UserInputPanel.handleCancel: the Cancel button / Escape key
panelCancel ==
  /\ userInputRequest # NoRequest
  /\ IF requests[userInputRequest].type = "confirm"
     THEN handleUserSubmit("false")
     ELSE handleUserCancel

loadExample ==
  /\ UserCanAct
  /\ logs' = << >>
  /\ status' = "IDLE"
  /\ runtimeSpans' = NullSpans
  /\ UNCHANGED <<executionIdRef, userInputRequest, apiError, geminiApiKey,
                 winVars, execVars, err, calls, requests>>
  /\ UNCHANGED <<logLevel, traceVars, inferVars>>

confirmRevertAction ==
  /\ UserCanAct
  /\ logs' = addSystemLog(<< >>, "system",
               <<"Pattern reverted to original template.">>)
  /\ status' = "IDLE"
  /\ runtimeSpans' = NullSpans
  /\ UNCHANGED <<executionIdRef, userInputRequest, apiError, geminiApiKey,
                 winVars, execVars, err, calls, requests>>
  /\ UNCHANGED <<logLevel, traceVars, inferVars>>

\* the editor is disabled while status is RUNNING
handleCodeChange ==
  /\ UserCanAct
  /\ status # "RUNNING"
  /\ runtimeSpans' = NullSpans
  /\ UNCHANGED <<status, executionIdRef, logs, userInputRequest, apiError,
                 geminiApiKey, winVars, execVars, err, calls, requests>>
  /\ UNCHANGED <<logLevel, traceVars, inferVars>>

\* SettingsModal: onSave({...settings, geminiApiKey})
saveSettings(key) ==
  /\ UserCanAct
  /\ geminiApiKey' = key
  /\ UNCHANGED <<status, executionIdRef, logs, runtimeSpans,
                 userInputRequest, apiError, winVars, execVars, err, calls,
                 requests>>
  /\ UNCHANGED <<logLevel, traceVars, inferVars>>

\* the API error dialog: onClose / onConfirm
dismissApiError ==
  /\ ~MicrotaskPending
  /\ apiError # "none"
  /\ apiError' = "none"
  /\ UNCHANGED <<status, executionIdRef, logs, runtimeSpans,
                 userInputRequest, geminiApiKey, winVars, execVars, err,
                 calls, requests>>
  /\ UNCHANGED <<logLevel, traceVars, inferVars>>

\* the callbacks handleRun hands to executeCode for run id
\* (variant: a payload that does not parse replaces the spans by none)
onGraphUpdateClears(id, payload) ==
  IF isCurrent(id)
  THEN IF payload.json
       THEN /\ runtimeSpans' = [null |-> FALSE, spans |-> payload.spans]
            /\ logs' = logs
       ELSE /\ runtimeSpans' = [null |-> FALSE, spans |-> << >>]
            /\ logs' = ConsoleCall("warn",
                         <<"Received invalid graph payload">>, logs)
  ELSE UNCHANGED <<runtimeSpans, logs>>
onGraphUpdate(id, payload) ==
  IF isCurrent(id)
  THEN IF payload.json
       THEN /\ runtimeSpans' = [null |-> FALSE, spans |-> payload.spans]
            /\ logs' = logs
       ELSE /\ runtimeSpans' = runtimeSpans
            /\ logs' = ConsoleCall("warn",
                         <<"Received invalid graph payload">>, logs)
  ELSE UNCHANGED <<runtimeSpans, logs>>

onUserInteraction(id, req) ==
  IF isCurrent(id)
  THEN userInputRequest' = req
  ELSE userInputRequest' = userInputRequest

\* ------------------------------------------------------------ the program
\* Each call resolves console.<m>, __setGraphDefinition, promptUser and
\* confirmUser on window when it is made.
CanStep(i) == ~MicrotaskPending /\ phase[i] = "running"
CanCall(i) == CanStep(i) /\ calls < MaxCalls

ProgConsole(i, m) ==
  /\ CanCall(i)
  /\ calls' = calls + 1
  /\ logs' = ConsoleCall(m, <<"msg">>, logs)
  /\ UNCHANGED <<status, executionIdRef, runtimeSpans, userInputRequest,
                 apiError, geminiApiKey, winVars, execVars, err, requests>>
  /\ UNCHANGED <<logLevel, traceVars, inferVars>>

\* tracer.publishGraph(): if (window.__setGraphDefinition) call it
ProgPublish(i, payload) ==
  /\ CanCall(i)
  /\ calls' = calls + 1
  /\ IF hooks["setGraphDefinition"] = Absent
     THEN UNCHANGED <<runtimeSpans, logs>>
     ELSE onGraphUpdate(hooks["setGraphDefinition"], payload)
  /\ UNCHANGED <<status, executionIdRef, userInputRequest, apiError,
                 geminiApiKey, winVars, execVars, err, requests>>
  /\ UNCHANGED <<logLevel, traceVars, inferVars>>

HookFor(type) == IF type = "text" THEN "promptUser" ELSE "confirmUser"

\* await promptUser(...) / await confirmUser(...): without the hook on
\* window the call is a ReferenceError
ProgRequest(i, type) ==
  /\ CanCall(i)
  /\ calls' = calls + 1
  /\ IF hooks[HookFor(type)] = Absent
     THEN /\ phase' = [phase EXCEPT ![i] = "threw"]
          /\ err' = [err EXCEPT ![i] = ReferenceErrorMsg]
          /\ UNCHANGED <<requests, userInputRequest>>
     ELSE /\ requests' = [requests EXCEPT ![i] = NewRequest(type)]
          /\ onUserInteraction(hooks[HookFor(type)], i)
          /\ phase' = [phase EXCEPT ![i] = "awaiting"]
          /\ err' = err
  /\ UNCHANGED <<status, executionIdRef, logs, runtimeSpans, apiError,
                 geminiApiKey, winVars, originalConsole>>
  /\ UNCHANGED <<logLevel, traceVars, inferVars>>

\* the program reads the result of its await and continues
Resume(i) ==
  /\ phase[i] = "awaiting"
  /\ awaitDone(i)
  /\ phase' = [phase EXCEPT ![i] = "running"]
  /\ requests' = [requests EXCEPT ![i] = NoPromise]
  /\ UNCHANGED <<hostVars, winVars, originalConsole, err, calls>>
  /\ UNCHANGED <<traceVars, inferVars>>

\* the module runs to its end
ProgFinish(i) ==
  /\ CanStep(i)
  /\ phase' = [phase EXCEPT ![i] = "finished"]
  /\ UNCHANGED <<hostVars, winVars, originalConsole, err, calls, requests>>
  /\ UNCHANGED <<traceVars, inferVars>>

\* the module throws, during its evaluation or after an await
ProgThrow(i, msg) ==
  /\ CanStep(i)
  /\ phase' = [phase EXCEPT ![i] = "threw"]
  /\ err' = [err EXCEPT ![i] = msg]
  /\ UNCHANGED <<hostVars, winVars, originalConsole, calls, requests>>
  /\ UNCHANGED <<traceVars, inferVars>>

\* ------------------------------------------------------------------- Next
Next ==
  \/ handleRun
  \/ \E i \in RunIds : Teardown(i)
  \/ \E i \in RunIds : handleRunSettled(i)
  \/ handleStop
  \/ panelSubmit
  \/ panelCancel
  \/ loadExample
  \/ confirmRevertAction
  \/ handleCodeChange
  \/ \E key \in Keys : saveSettings(key)
  \/ dismissApiError
  \/ \E i \in RunIds, m \in CallMethods : ProgConsole(i, m)
  \/ \E i \in RunIds : \E payload \in Payloads(i) : ProgPublish(i, payload)
  \/ \E i \in RunIds, type \in RequestTypes : ProgRequest(i, type)
  \/ \E i \in RunIds : Resume(i)
  \/ \E i \in RunIds : ProgFinish(i)
  \/ \E i \in RunIds, msg \in ErrMsgs : ProgThrow(i, msg)

Spec == Init /\ [][Next]_vars

\* The event loop runs every ready continuation; on top of that, every
\* program goes on until it ends or awaits the bridge, and the user answers
\* a request the panel shows and closes an open dialog.
ProgStep(i) ==
  \/ \E m \in CallMethods : ProgConsole(i, m)
  \/ \E payload \in Payloads(i) : ProgPublish(i, payload)
  \/ \E type \in RequestTypes : ProgRequest(i, type)
  \/ ProgFinish(i)
  \/ \E msg \in ErrMsgs : ProgThrow(i, msg)

Fairness ==
  /\ \A i \in RunIds : /\ WF_vars(ProgStep(i))
                       /\ WF_vars(Resume(i))
                       /\ WF_vars(Teardown(i))
                       /\ WF_vars(handleRunSettled(i))
  /\ SF_vars(panelSubmit \/ panelCancel)
  /\ WF_vars(dismissApiError)

FairSpec == Spec /\ Fairness

\* The bridge under a host that hands any value to the resolution callback
\* of the request it holds.
hostResolve(val) == handleUserSubmit(val)

BridgeNext == Next \/ \E val \in JSValues : hostResolve(val)

BridgeSpec == Init /\ [][BridgeNext]_vars


\* ------------------------------------------- SimpleTracer (the program's)
\* the host's variables, which the tracer and the renderers leave alone
\* (the console aside)
runVars == <<status, executionIdRef, runtimeSpans, userInputRequest,
             apiError, geminiApiKey, logLevel, winVars, execVars, err, calls,
             requests>>

\* crypto.randomUUID(): a value never returned before
\* (variant: the generator returns the same value again)
randomUUIDRepeats == IF spans = << >> THEN 1 ELSE spans[1].id
randomUUID == Len(spans) + 1

\* arguments the programs of the model call the tracer with
TracerNames == {<<"a">>, <<"b", "-">>}
TracerParents == {NullParent, OneParent(1)}

newSpan(id, name, parentId, now) ==
  [id |-> id, name |-> name, parentId |-> parentId, output |-> NullOutput,
   status |-> "RUNNING", startTime |-> now, endTime |-> NoEndTime]

\* this.spans.find(s => s.id === spanId): the position of the first match,
\* 0 for undefined
\* (variant: with no match, the first element is returned)
findByIdOrFirst(list, spanId) ==
  LET hits == {k \in 1..Len(list) : list[k].id = spanId}
  IN IF hits = {} THEN (IF list = << >> THEN 0 ELSE 1)
     ELSE CHOOSE k \in hits : \A h \in hits : k <= h
findById(list, spanId) ==
  LET hits == {k \in 1..Len(list) : list[k].id = spanId}
  IN IF hits = {} THEN 0 ELSE CHOOSE k \in hits : \A h \in hits : k <= h

startSpan(name, parentId) ==
  /\ Len(spans) < MaxSpans
  /\ LET span == newSpan(randomUUID, name, parentId, clock)
     IN /\ spans' = Append(spans, span)
        /\ ret' = <<span>>
  /\ logs' = ConsoleCall("debug", <<"[Tracer] Started span:">> \o name, logs)
  /\ UNCHANGED <<clock, dag, seq, runVars, inferVars>>

\* what endSpan makes of the span it found at position k
endSpanFound(k, output, now) ==
  [spans[k] EXCEPT !.output = output, !.status = "COMPLETED",
                   !.endTime = now]

endSpan(spanId, output) ==
  /\ LET k == findById(spans, spanId)
     IN IF k # 0
        THEN /\ spans' = [spans EXCEPT ![k] = endSpanFound(k, output, clock)]
             /\ logs' = ConsoleCall("debug", <<"[Tracer] Ended span:">>
                                              \o spans[k].name, logs)
        ELSE UNCHANGED <<spans, logs>>
  /\ ret' = << >>
  /\ UNCHANGED <<clock, dag, seq, runVars, inferVars>>

\* time passes between two calls of the program
Tick ==
  /\ clock < MaxTime
  /\ clock' = clock + 1
  /\ UNCHANGED <<spans, ret, dag, seq, logs, runVars, inferVars>>

TracerNext ==
  \/ \E name \in TracerNames, parentId \in TracerParents :
       startSpan(name, parentId)
  \/ \E spanId \in SpanIds, output \in Outputs : endSpan(spanId, output)
  \/ Tick

TracerSpec == Init /\ [][TracerNext]_vars

\* --------------------------------------- renderers (services/mermaidParser)
\* the characters of the model's names that /[a-zA-Z0-9]/ matches
AlphaNumeric == {"a", "b", "c"}

\* name.replace(/[^a-zA-Z0-9]/g, '_')
safeName(name) ==
  [k \in 1..Len(name) |-> IF name[k] \in AlphaNumeric THEN name[k] ELSE "_"]

StartNode == <<"S", "T", "A", "R", "T">>
EndNode == <<"E", "N", "D">>
AgentNode == <<"A", "g", "e", "n", "t">>
UserNode == <<"U", "s", "e", "r">>

\* one line of Mermaid text, by its parts
Line(kind, a, b, label) == [kind |-> kind, a |-> a, b |-> b, label |-> label]
NodeLine(id, label) == Line("node", id, << >>, label)
EdgeLine(from, to) == Line("edge", from, to, << >>)

RECURSIVE Flatten(_)
Flatten(ss) == IF ss = << >> THEN << >> ELSE Head(ss) \o Flatten(Tail(ss))

\* Array.isArray(span.parentId), and the truthiness of span.parentId: null
\* is falsy, an id (a non-empty string) and every array are truthy
IsArray(parentId) == parentId.kind = "array"
TruthyParent(parentId) == parentId.kind # "null"

\* the edge from the span with id pid to span, if the list has such a span
parentEdge(list, pid, span) ==
  LET k == findById(list, pid)
  IN IF k # 0 THEN <<EdgeLine(safeName(list[k].name), safeName(span.name))>>
     ELSE << >>

\* (variant: a span without a parent gets no edge)
dagEdgesNoStart(list, span) ==
  IF IsArray(span.parentId)
  THEN Flatten([j \in 1..Len(span.parentId.ids) |->
                  parentEdge(list, span.parentId.ids[j], span)])
  ELSE IF TruthyParent(span.parentId)
       THEN parentEdge(list, span.parentId.ids[1], span)
       ELSE << >>
\* the "Edges" pass for one span
dagEdges(list, span) ==
  IF IsArray(span.parentId)
  THEN Flatten([j \in 1..Len(span.parentId.ids) |->
                  parentEdge(list, span.parentId.ids[j], span)])
  ELSE IF TruthyParent(span.parentId)
       THEN parentEdge(list, span.parentId.ids[1], span)
       ELSE <<EdgeLine(StartNode, safeName(span.name))>>

\* spans.some(s => Array.isArray(s.parentId) ? s.parentId.includes(span.id)
\*                                           : s.parentId === span.id)
isParent(list, span) ==
  \E k \in 1..Len(list) :
    IF IsArray(list[k].parentId)
    THEN span.id \in Range(list[k].parentId.ids)
    ELSE list[k].parentId = OneParent(span.id)

\* (variant: every span is edged into END)
dagEndAlways(list, span) == <<EdgeLine(safeName(span.name), EndNode)>>
\* the "End Connections" pass for one span
dagEnd(list, span) ==
  IF ~isParent(list, span) THEN <<EdgeLine(safeName(span.name), EndNode)>>
  ELSE << >>

\* (variant: a span with a parent gets no node line)
dagNodeRootsOnly(span) ==
  IF TruthyParent(span.parentId) THEN << >>
  ELSE <<NodeLine(safeName(span.name), span.name)>>
\* the "Nodes" pass for one span
dagNode(span) == <<NodeLine(safeName(span.name), span.name)>>

generateRuntimeDAG(list) ==
  <<Line("graph TD", << >>, << >>, << >>),
    NodeLine(StartNode, StartNode),
    NodeLine(EndNode, EndNode)>>
  \o Flatten([k \in 1..Len(list) |-> dagNode(list[k])])
  \o Flatten([k \in 1..Len(list) |-> dagEdges(list, list[k])])
  \o Flatten([k \in 1..Len(list) |-> dagEnd(list, list[k])])


\* [...spans].sort((a, b) => a.startTime - b.startTime): the sort is stable;
\* computed by inserting each span, in list order, behind every span
\* already placed that does not start later
\* (variant: a span is placed in front of the spans that start when it does)
insertBeforeTies(sorted, span) ==
  LET before == SelectSeq(sorted, LAMBDA s : s.startTime < span.startTime)
      after == SelectSeq(sorted, LAMBDA s : s.startTime >= span.startTime)
  IN before \o <<span>> \o after
insertByStart(sorted, span) ==
  LET before == SelectSeq(sorted, LAMBDA s : s.startTime <= span.startTime)
      after == SelectSeq(sorted, LAMBDA s : s.startTime > span.startTime)
  IN before \o <<span>> \o after

RECURSIVE sortInto(_, _)
sortInto(sorted, rest) ==
  IF rest = << >> THEN sorted
  ELSE sortInto(insertByStart(sorted, Head(rest)), Tail(rest))

sortedSpans(list) == sortInto(<< >>, list)

\* the truthiness of s.endTime: undefined and 0 are falsy
TruthyTime(t) == t # NoEndTime /\ t # 0

\* s.endTime ? s.endTime > span.startTime : true
parentRunning(s, span) ==
  IF TruthyTime(s.endTime) THEN s.endTime > span.startTime ELSE TRUE

\* the predicate handed to spans.find for the parent that was active
\* (variant: the parent is not required to have started first)
isRunningParent(s, span) ==
  /\ s.id \in Range(span.parentId.ids)
  /\ parentRunning(s, span)
isActiveParent(s, span) ==
  /\ s.id \in Range(span.parentId.ids)
  /\ parentRunning(s, span)
  /\ s.startTime < span.startTime

\* spans.find(...): the position in the span list of the first span the
\* predicate accepts, 0 for undefined
activeParent(list, span) ==
  LET hits == {k \in 1..Len(list) : isActiveParent(list[k], span)}
  IN IF hits = {} THEN 0 ELSE CHOOSE k \in hits : \A h \in hits : k <= h

caller(list, span) ==
  IF TruthyParent(span.parentId) /\ activeParent(list, span) # 0
  THEN safeName(list[activeParent(list, span)].name)
  ELSE AgentNode

\* the four lines rendered for one span
seqLines(list, span) ==
  <<Line("call", caller(list, span), safeName(span.name), span.name),
    Line("activate", safeName(span.name), << >>, << >>),
    Line("return", safeName(span.name), caller(list, span), << >>),
    Line("deactivate", safeName(span.name), << >>, << >>)>>

generateRuntimeSequence(list) ==
  <<Line("sequenceDiagram", << >>, << >>, << >>),
    Line("autonumber", << >>, << >>, << >>),
    Line("participant", UserNode, << >>, << >>),
    Line("participant", AgentNode, << >>, <<"Agent Loop">>),
    Line("call", UserNode, AgentNode, <<"Start Task">>),
    Line("activate", AgentNode, << >>, << >>)>>
  \o Flatten([k \in 1..Len(list) |-> seqLines(list, sortedSpans(list)[k])])
  \o <<Line("deactivate", AgentNode, << >>, << >>)>>

\* CodeEditor's mermaidDefinition for the span list the host holds
renderDAG ==
  /\ dag' = generateRuntimeDAG(spans)
  /\ UNCHANGED <<spans, clock, ret, seq, logs, runVars, inferVars>>

renderSequence ==
  /\ seq' = generateRuntimeSequence(spans)
  /\ UNCHANGED <<spans, clock, ret, dag, logs, runVars, inferVars>>

RenderNext == renderDAG \/ renderSequence

\* Span lists handed to the renderers.  The span at position k has id k; no
\* span names itself as a parent (its id does not exist before it does).
OtherIds(k) == SpanIds \ {k}
ParentLists(k) ==
  {<< >>} \cup {<<p>> : p \in OtherIds(k)}
          \cup {pq \in OtherIds(k) \X OtherIds(k) : pq[1] # pq[2]}
ParentIds(k) ==
  {NullParent} \cup {OneParent(p) : p \in OtherIds(k)}
               \cup {ManyParents(ps) : ps \in ParentLists(k)}

Lengths == 0..MaxSpans

\* inputs of the dependency graph: names and parents vary
DagSpan(k, name, parentId) ==
  [id |-> k, name |-> name, parentId |-> parentId, output |-> NullOutput,
   status |-> "RUNNING", startTime |-> 0, endTime |-> NoEndTime]
DagSpans(k) ==
  {DagSpan(k, name, parentId) : name \in Names, parentId \in ParentIds(k)}
RECURSIVE DagLists(_)
DagLists(n) ==
  IF n = 0 THEN {<< >>}
  ELSE {Append(l, span) : l \in DagLists(n - 1), span \in DagSpans(n)}

\* inputs of the sequence diagram: parents and times vary, every span has
\* a name of its own
SeqNames == <<<<"a">>, <<"b">>, <<"c", "-">>, <<"a", "a">>, <<"b", "b">>>>
EndTimes(start) == {NoEndTime} \cup {t \in Times : t >= start}
SeqSpan(k, parentId, start, end) ==
  [id |-> k, name |-> SeqNames[k], parentId |-> parentId,
   output |-> NullOutput,
   status |-> IF end = NoEndTime THEN "RUNNING" ELSE "COMPLETED",
   startTime |-> start, endTime |-> end]
\* for the caller an empty array counts like null and <<p>> like p
SeqParentIds(k) ==
  {NullParent} \cup {OneParent(p) : p \in OtherIds(k)}
               \cup {ManyParents(ps) : ps \in {l \in ParentLists(k) : Len(l) = 2}}
SeqSpans(k) ==
  UNION {{SeqSpan(k, parentId, start, end) :
            parentId \in SeqParentIds(k), end \in EndTimes(start)} :
         start \in Times}
RECURSIVE SeqLists(_)
SeqLists(n) ==
  IF n = 0 THEN {<< >>}
  ELSE {Append(l, span) : l \in SeqLists(n - 1), span \in SeqSpans(n)}

RenderInit(list) ==
  /\ HostInit
  /\ spans = list
  /\ clock = 0
  /\ ret = << >>
  /\ dag = << >>
  /\ seq = << >>
  /\ code = << >>
  /\ staticDef = << >>

DagInit == \E n \in Lengths : \E list \in DagLists(n) : RenderInit(list)
SeqInit == \E n \in Lengths : \E list \in SeqLists(n) : RenderInit(list)

DagSpec == DagInit /\ [][RenderNext]_vars
SeqSpec == SeqInit /\ [][renderSequence]_vars


\* ------------------------------------------ the output panel (OutputPanel)
LogLevels == {"DEBUG", "INFO"}

\* (variant: warnings pass the INFO filter as well)
filteredLogsWithWarn(lg, level) ==
  SelectSeq(lg, LAMBDA log : \/ level = "DEBUG"
                             \/ log.type \in {"info", "error", "warn"})
\* logs.filter(...): the records the panel shows at a log level
filteredLogs(lg, level) ==
  SelectSeq(lg, LAMBDA log : \/ level = "DEBUG"
                             \/ log.type = "info" \/ log.type = "error")

\* the select of the panel: setLogLevel(e.target.value)
setLogLevel(level) ==
  /\ UserCanAct
  /\ logLevel' = level
  /\ UNCHANGED <<status, executionIdRef, logs, runtimeSpans,
                 userInputRequest, apiError, geminiApiKey, winVars, execVars,
                 err, calls, requests>>
  /\ UNCHANGED <<traceVars, inferVars>>

\* Runs whose programs use all five console methods, under a user who also
\* switches the log level.
LogNext ==
  \/ handleRun
  \/ \E key \in Keys : saveSettings(key)
  \/ \E i \in RunIds, m \in Methods : ProgConsole(i, m)
  \/ \E i \in RunIds : ProgFinish(i)
  \/ \E i \in RunIds, msg \in ErrMsgs : ProgThrow(i, msg)
  \/ \E i \in RunIds : Teardown(i)
  \/ \E i \in RunIds : handleRunSettled(i)
  \/ dismissApiError
  \/ handleStop
  \/ \E level \in LogLevels : setLogLevel(level)

LogSpec == Init /\ [][LogNext]_vars

\* ------------------------- static inferrer (services/mermaidParser, cont.)
\* wrapText's default maxLen
maxLen == 20

\* text.split(sep) for a separator of one character
RECURSIVE Split(_, _, _)
Split(text, sep, piece) ==
  IF text = << >> THEN <<piece>>
  ELSE IF Head(text) = sep
       THEN <<piece>> \o Split(Tail(text), sep, << >>)
       ELSE Split(Tail(text), sep, Append(piece, Head(text)))

\* String.prototype.trim()
RECURSIVE TrimEnd(_)
TrimEnd(s) == IF s = << >> THEN s
              ELSE IF s[Len(s)] = " " THEN TrimEnd(SubSeq(s, 1, Len(s) - 1))
              ELSE s
Trim(s) == TrimEnd(TrimStart(s))

\* the words.forEach loop of wrapText, then the last line
RECURSIVE wrapWords(_, _, _)
wrapWords(words, lines, currentLine) ==
  LET pushed == IF currentLine # << >>
                THEN Append(lines, Trim(currentLine)) ELSE lines
  IN IF words = << >> THEN pushed
     ELSE IF Len(currentLine) + Len(Head(words)) > maxLen
          THEN wrapWords(Tail(words), pushed, Head(words) \o <<" ">>)
          ELSE wrapWords(Tail(words), lines,
                         currentLine \o Head(words) \o <<" ">>)

\* lines.join("<br/>")
RECURSIVE joinBr(_)
joinBr(lines) ==
  IF lines = << >> THEN << >>
  ELSE IF Len(lines) = 1 THEN Head(lines)
  ELSE Head(lines) \o <<"<br/>">> \o joinBr(Tail(lines))

wrapText(text) ==
  IF text = << >> THEN << >>
  ELSE IF Len(text) <= maxLen THEN text
  ELSE joinBr(wrapWords(Split(text, " ", << >>), << >>, << >>))

\* .replace(/['"]/g, '')
unquote(s) == SelectSeq(s, LAMBDA c : c \notin {"'", "\""})

\* The source text, by what the three regular expressions find in it, in
\* the order of the text: each declaration with the text of its arguments,
\* and text no expression matches.
NoMapping == [given |-> FALSE, pairs |-> << >>]
Mapping(pairs) == [given |-> TRUE, pairs |-> pairs]
addNodeDecl(name) ==
  [kind |-> "addNode", args |-> <<name>>, mapping |-> NoMapping]
addEdgeDecl(from, to) ==
  [kind |-> "addEdge", args |-> <<from, to>>, mapping |-> NoMapping]
addConditionalEdgesDecl(from, fnName, mapping) ==
  [kind |-> "addConditionalEdges", args |-> <<from, fnName>>,
   mapping |-> mapping]
otherText == [kind |-> "other", args |-> << >>, mapping |-> NoMapping]

ConditionalPathNode ==
  <<"C", "o", "n", "d", "i", "t", "i", "o", "n", "a", "l", "P", "a", "t", "h">>
NoGraphLine ==
  NodeLine(<<"N", "o", "G", "r", "a", "p", "h">>,
           <<"No Graph structure detected">>)

\* 1. the nodeRegex loop
staticNode(decl) ==
  IF decl.kind = "addNode"
  THEN <<NodeLine(decl.args[1], wrapText(decl.args[1]))>>
  ELSE << >>

\* 2. the edgeRegex loop
staticEdge(decl) ==
  IF decl.kind = "addEdge"
  THEN <<EdgeLine(unquote(Trim(decl.args[1])), unquote(Trim(decl.args[2])))>>
  ELSE << >>

\* 3. the condEdgeRegex loop: one line per pair of the mapping, none when
\* the mapping has no pair, and the ConditionalPath line without a mapping
pairTarget(pair) == unquote(Trim(Split(pair, ":", << >>)[2]))
staticCond(decl) ==
  LET from == unquote(Trim(decl.args[1]))
      fnName == Trim(decl.args[2])
      pairs == decl.mapping.pairs
      label(pair) == unquote(Trim(Split(pair, ":", << >>)[1]))
  IN IF decl.kind # "addConditionalEdges" THEN << >>
     ELSE IF decl.mapping.given
          THEN [j \in 1..Len(pairs) |->
                  Line("cond", from, pairTarget(pairs[j]),
                       wrapText(label(pairs[j])))]
          ELSE <<Line("cond", from, ConditionalPathNode, wrapText(fnName))>>

\* what the three loops add to nodesUsed
declNodes(decl) ==
  CASE decl.kind = "addNode" -> {decl.args[1]}
    [] decl.kind = "addEdge" -> {unquote(Trim(decl.args[1])),
                                 unquote(Trim(decl.args[2]))}
    [] decl.kind = "addConditionalEdges" ->
         {unquote(Trim(decl.args[1]))}
         \cup (IF decl.mapping.given
               THEN {pairTarget(decl.mapping.pairs[j]) :
                       j \in 1..Len(decl.mapping.pairs)}
               ELSE {ConditionalPathNode})
    [] OTHER -> {}
nodesUsed(text) == UNION {declNodes(text[k]) : k \in 1..Len(text)}

\* 4. the shapes of START, END and ConditionalPath
staticShapes(used) ==
  LET circle(id, label) == Line("circle", id, << >>, label)
  IN (IF StartNode \in used THEN <<circle(StartNode, StartNode)>> ELSE << >>)
     \o (IF EndNode \in used THEN <<circle(EndNode, EndNode)>> ELSE << >>)
     \o (IF ConditionalPathNode \in used
         THEN <<circle(ConditionalPathNode, <<"Decision">>)>> ELSE << >>)

\* the fallback when nothing but the header was pushed
staticFallback(lines) ==
  IF Len(lines) = 1 THEN Append(lines, NoGraphLine) ELSE lines

parseCodeToMermaid(text) ==
  staticFallback(
    <<Line("graph TD", << >>, << >>, << >>)>>
    \o Flatten([k \in 1..Len(text) |-> staticNode(text[k])])
    \o Flatten([k \in 1..Len(text) |-> staticEdge(text[k])])
    \o Flatten([k \in 1..Len(text) |-> staticCond(text[k])])
    \o staticShapes(nodesUsed(text)))

\* CodeEditor's mermaidDefinition without runtime spans
parseCode ==
  /\ staticDef' = parseCodeToMermaid(code)
  /\ UNCHANGED <<code, traceVars, logs, runVars>>

\* Source texts handed to the inferrer: up to MaxDecls pieces, each a
\* declaration or other text.
Decls ==
  LET quoted(s) == <<"'">> \o s \o <<"'">>
      \* a name of two words that is longer than maxLen
      longName == [k \in 1..10 |-> "a"] \o <<" ">> \o [k \in 1..11 |-> "b"]
      \* no third argument, one without a pair, one with the pair 'x': 'b'
      mappings ==
        {NoMapping, Mapping(<< >>),
         Mapping(<<quoted(<<"x">>) \o <<":", " ">> \o quoted(<<"b">>)>>)}
  IN {otherText}
     \cup {addNodeDecl(name) : name \in {<<"a">>, longName}}
     \cup {addEdgeDecl(StartNode, quoted(<<"a">>)),
           addEdgeDecl(quoted(<<"a">>), EndNode)}
     \cup {addConditionalEdgesDecl(from, <<"f">>, mapping) :
             from \in {quoted(<<"a">>), StartNode}, mapping \in mappings}
RECURSIVE CodeTexts(_)
CodeTexts(n) ==
  IF n = 0 THEN {<< >>}
  ELSE {Append(text, decl) : text \in CodeTexts(n - 1), decl \in Decls}

StaticInit ==
  /\ HostInit
  /\ spans = << >>
  /\ clock = 0
  /\ ret = << >>
  /\ dag = << >>
  /\ seq = << >>
  /\ \E n \in 0..MaxDecls : code \in CodeTexts(n)
  /\ staticDef = << >>

StaticSpec == StaticInit /\ [][parseCode]_vars

\* ================================================================ claims
TornDown(i) == console = originalConsole[i] /\ hooks = deleteHooks

\* C1: when an executeCode invocation has settled (its promise fulfilled or
\* rejected, whether the program ended, threw at once or threw after an
\* await), the five console functions are the ones captured when the
\* invocation began and none of the three hooks is on window.
C1_TeardownRestores ==
  \A i \in RunIds : phase[i] \in {"fulfilled", "rejected"} => TornDown(i)

\* an invocation that patched the console settled after its program threw
C1_Witness ==
  \E i \in RunIds : /\ phase[i] = "rejected"
                    /\ \A m \in Methods : console[m] # i
                    /\ \A h \in HookNames : hooks[h] = Absent

\* C6: executeCode's promise is rejected exactly when the program threw and
\* fulfilled when it ended normally, and handleRun resumes (try or catch
\* branch) only after the finally block of executeCode has restored the
\* console and removed the hooks; the current run then ends in ERROR
\* exactly when the promise was rejected.
C6_Step(i) ==
  /\ (phase'[i] = "rejected" /\ phase[i] # "rejected") => phase[i] = "threw"
  /\ (phase'[i] = "fulfilled" /\ phase[i] # "fulfilled")
        => phase[i] = "finished"
  /\ (phase[i] = "threw" /\ phase'[i] # "threw") => phase'[i] = "rejected"
  /\ (phase[i] = "finished" /\ phase'[i] # "finished")
        => phase'[i] = "fulfilled"
  /\ (phase'[i] = "done" /\ phase[i] # "done")
        => /\ phase[i] \in {"fulfilled", "rejected"}
           /\ TornDown(i)
           /\ isCurrent(i) => /\ status' = "ERROR" <=> phase[i] = "rejected"
                              /\ status' = "SUCCESS" <=> phase[i] = "fulfilled"

C6_RejectsIffThrows == [][\A i \in RunIds : C6_Step(i)]_vars

\* the host has caught the rejection of the current run
C6_Witness ==
  \E i \in RunIds : /\ phase[i] = "done"
                    /\ status = "ERROR"
                    /\ executionIdRef = NoRun
                    /\ Len(logs) > 0
                    /\ logs[Len(logs)].type = "error"


\* the values JavaScript treats as true, among JSValues
JSTruthy == {"true", "'yes'", "1"}

\* C8: whatever value the host hands to the resolution callback of the
\* request it holds, the program's promise is fulfilled, never rejected:
\* a text request resolved with null (cancel) yields null and with any
\* other value that value; a confirm request yields boolean true for a
\* truthy value and boolean false for a falsy one, the host's cancel (null)
\* included.
C8_Resolved(r, val) ==
  /\ requests'[r].state = "fulfilled"
  /\ requests[r].type = "text" => requests'[r].value = val
  /\ requests[r].type = "confirm"
        => requests'[r].value = IF val \in JSTruthy THEN "true" ELSE "false"

C8_Step ==
  /\ \A val \in JSValues :
        hostResolve(val) => C8_Resolved(userInputRequest, val)
  /\ handleUserCancel => C8_Resolved(userInputRequest, "null")
  /\ \A i \in RunIds : requests'[i].state # "rejected"

C8_ResolutionValues == [][C8_Step]_vars

\* a text request was cancelled: the awaiting program is about to read null
C8_Witness ==
  \E i \in RunIds : /\ phase[i] = "awaiting"
                    /\ requests[i].type = "text"
                    /\ requests[i].state = "fulfilled"
                    /\ requests[i].value = "null"

\* C9: the promise of a bridge call is pending from its creation until the
\* host invokes the resolve callback of that very request (handleUserSubmit
\* or handleUserCancel on the request the host holds); nothing else settles
\* it, and the program leaves its await only with the promise fulfilled.
HostResolves(r) ==
  /\ userInputRequest = r
  /\ (\E val \in JSValues : handleUserSubmit(val)) \/ handleUserCancel

C9_Step(i) ==
  /\ requests'[i].state = "pending" =>
        \/ requests[i].state = "pending"
        \/ phase[i] = "running" /\ phase'[i] = "awaiting"
  /\ (requests'[i].state \in {"fulfilled", "rejected"}
        /\ requests'[i] # requests[i])
        => requests[i].state = "pending" /\ HostResolves(i)
  /\ (phase[i] = "awaiting" /\ phase'[i] # "awaiting")
        => requests[i].state = "fulfilled"
  /\ (phase[i] = "running" /\ phase'[i] = "awaiting")
        => requests'[i].state = "pending"

C9_PendingUntilHostResolves == [][\A i \in RunIds : C9_Step(i)]_vars

\* a program waits on a pending promise whose request the host holds
C9_Witness ==
  \E i \in RunIds : /\ phase[i] = "awaiting"
                    /\ requests[i].state = "pending"
                    /\ userInputRequest = i
                    /\ executionIdRef = i


\* C2: every invocation that has patched the console eventually runs its
\* finally block, whatever happens to the run: the program ends, throws, or
\* the host stops or supersedes the run, also while the program awaits a
\* request of the Interaction Bridge.
C2_TeardownEventually ==
  \A i \in RunIds :
    (phase[i] \in {"running", "awaiting"})
       ~> (phase[i] \in {"fulfilled", "rejected", "done"})

\* a call made by the program of invocation i
ProgCalls(i) ==
  \/ \E m \in CallMethods : ProgConsole(i, m)
  \/ \E payload \in Payloads(i) : ProgPublish(i, payload)
  \/ \E type \in RequestTypes : ProgRequest(i, type)

\* the only program that is executing is the one of invocation i
OnlyRunning(i) == \A j \in RunIds : phase[j] = "running" => j = i

\* C3: while another run is the current one, no console call, graph
\* publication or bridge request made by the program of a superseded run
\* changes the host's logs, runtimeSpans or userInputRequest.  (Stated for
\* the steps only the superseded program can have taken.)
C3_SupersededIsSilent ==
  [][\A i \in RunIds :
       (/\ ProgCalls(i)
        /\ OnlyRunning(i)
        /\ executionIdRef # NoRun
        /\ executionIdRef # i)
          => UNCHANGED <<logs, runtimeSpans, userInputRequest>>]_vars

\* C4: when handleStop stops a run while the host holds a pending request,
\* it resolves that request, so the awaited promise is fulfilled.
C4_StopResolvesPending ==
  [][(handleStop /\ userInputRequest # NoRequest)
        => requests'[userInputRequest].state = "fulfilled"]_vars

\* C5: a console call made by the program of the current run appends
\* exactly one record of the call's type to the end of the host's logs, in
\* the same step.  (Stated for the steps only that program can have taken.)
C5_OneRecordPerCall ==
  [][\A i \in RunIds, m \in CallMethods :
       (ProgConsole(i, m) /\ OnlyRunning(i) /\ isCurrent(i))
          => logs' = Append(logs, LogRecord(LogType(m), <<"msg">>))]_vars

\* C7: at most one InputRequest created by the bridge is unresolved.
C7_AtMostOneUnresolved ==
  Cardinality({i \in RunIds : requests[i].state = "pending"}) <= 1

\* C10: the spans the host holds all belong to the run started last.
LastRun == Cardinality(Started)
C10_SpansOfCurrentRunOnly ==
  \A k \in 1..Len(runtimeSpans.spans) : runtimeSpans.spans[k].run = LastRun

\* ids of the spans in the tracer's list
UsedIds == {spans[k].id : k \in 1..Len(spans)}

\* C11: a startSpan call appends exactly one span at the end of the list,
\* RUNNING, with null output and no endTime, whose id differs from every id
\* already in the list; it returns that span (the handle carries the id);
\* the spans that were in the list stay as they were, in the same order.
C11_Step(name, parentId) ==
  startSpan(name, parentId) =>
    LET last == spans'[Len(spans')]
    IN /\ Len(spans') = Len(spans) + 1
       /\ SubSeq(spans', 1, Len(spans)) = spans
       /\ last.status = "RUNNING"
       /\ last.output = NullOutput
       /\ last.endTime = NoEndTime
       /\ last.name = name /\ last.parentId = parentId
       /\ last.id \notin UsedIds
       /\ ret' = <<last>>

C11_StartSpanAppends ==
  [][\A name \in TracerNames, parentId \in TracerParents :
       C11_Step(name, parentId)]_vars

\* startSpan has just returned the third span; an earlier one is COMPLETED
C11_Witness ==
  /\ Len(spans) = 3
  /\ ret = <<spans[3]>>
  /\ spans[3].status = "RUNNING"
  /\ \E k \in 1..2 : spans[k].status = "COMPLETED"

\* C12: an endSpan call with an id that no span of the list has returns
\* normally (undefined) and leaves the span list, and the console, as they
\* were.
C12_EndSpanUnknownIsNoOp ==
  [][\A spanId \in SpanIds, output \in Outputs :
       (endSpan(spanId, output) /\ spanId \notin UsedIds)
          => /\ spans' = spans
             /\ logs' = logs
             /\ ret' = << >>]_vars

\* an endSpan call returned after the last startSpan and every span of the
\* list is still RUNNING: the call was made with an unknown id
C12_Witness ==
  /\ Len(spans) >= 1
  /\ Len(spans) < MaxSpans
  /\ ret = << >>
  /\ \A k \in 1..Len(spans) : spans[k].status = "RUNNING"

\* C13: a span changes at most once after its creation: the endSpan that
\* completes it sets status, output and endTime, and from then on no call
\* changes it; a span that is RUNNING has no endTime; no span goes from
\* COMPLETED back to RUNNING.
C13_Step(k) ==
  /\ spans[k].status = "COMPLETED" => spans'[k] = spans[k]
  /\ spans[k].status = "RUNNING" =>
        /\ spans[k].endTime = NoEndTime
        /\ spans'[k] # spans[k] => /\ spans'[k].status = "COMPLETED"
                                   /\ spans'[k].endTime # NoEndTime

C13_MutatedAtMostOnce == [][\A k \in 1..Len(spans) : C13_Step(k)]_vars

\* the lines of the last dependency graph, by kind
DagNodeLines == SelectSeq(dag, LAMBDA l : l.kind = "node")
DagEdgeLines == SelectSeq(dag, LAMBDA l : l.kind = "edge")
DeclaredNodes == {DagNodeLines[j].a : j \in 1..Len(DagNodeLines)}
ListIds == {spans[k].id : k \in 1..Len(spans)}

\* C14: the dependency graph of a span list declares START, END and then
\* one node per span, in list order, each with the identifier made from the
\* span's name; both ends of every edge line are declared identifiers.
\* (Spans whose names give the same identifier still get a line each.)
C14_OneNodePerSpan ==
  dag # << >> =>
    /\ Len(DagNodeLines) = Len(spans) + 2
    /\ DagNodeLines[1].a = StartNode /\ DagNodeLines[2].a = EndNode
    /\ \A k \in 1..Len(spans) :
         DagNodeLines[k + 2] = NodeLine(safeName(spans[k].name), spans[k].name)
    /\ \A j \in 1..Len(DagEdgeLines) :
         /\ DagEdgeLines[j].a \in DeclaredNodes
         /\ DagEdgeLines[j].b \in DeclaredNodes

\* a rendered list of three spans with an edge between two spans
C14_Witness ==
  /\ dag # << >>
  /\ Len(spans) = 3
  /\ \E j \in 1..Len(DagEdgeLines) :
       DagEdgeLines[j].a # StartNode /\ DagEdgeLines[j].b # EndNode

Dangling(k) ==
  /\ spans[k].parentId.kind = "id"
  /\ spans[k].parentId.ids[1] \notin ListIds

\* C16: a span whose parentId is the id of no span of the list is rendered
\* as a root: the dependency graph has the edge from START to it, and the
\* sequence diagram calls it from the default caller.
C16_DanglingParentIsRoot ==
  \A k \in 1..Len(spans) :
    Dangling(k) =>
      /\ dag # << >> =>
           \E j \in 1..Len(dag) :
             dag[j] = EdgeLine(StartNode, safeName(spans[k].name))
      /\ seq # << >> =>
           \E j \in 1..Len(seq) :
             seq[j] = Line("call", AgentNode, safeName(spans[k].name),
                           spans[k].name)

\* the id of s is in the parentId of another span of the list
Referenced(s) ==
  \E k \in 1..Len(spans) :
    spans[k].id # s.id /\ s.id \in Range(spans[k].parentId.ids)

SeqCallLines ==
  SelectSeq(seq, LAMBDA l : l.kind = "call" /\ l.a # UserNode)

\* the caller the diagram shows for the span at position k (the spans of a
\* sequence input have identifiers of their own)
RenderedCaller(k) ==
  LET j == CHOOSE j \in 1..Len(SeqCallLines) :
             SeqCallLines[j].b = safeName(spans[k].name)
  IN SeqCallLines[j].a

\* p is a declared parent of c that is active when c starts
DeclaredParent(p, c) == p.id \in Range(c.parentId.ids)
ActiveAt(p, c) ==
  /\ p.startTime < c.startTime
  /\ p.endTime = NoEndTime \/ p.endTime > c.startTime
Candidates(k) ==
  {j \in 1..Len(spans) : /\ DeclaredParent(spans[j], spans[k])
                         /\ ActiveAt(spans[j], spans[k])}

\* C18: the caller rendered for a span c is a declared parent p with
\* p.startTime < c.startTime and (p.endTime absent or p.endTime >
\* c.startTime); when no declared parent is such, also when c has no
\* parent, the caller is the default participant Agent.
C18_CallerIsActiveParent ==
  seq # << >> =>
    \A k \in 1..Len(spans) :
      IF Candidates(k) = {} THEN RenderedCaller(k) = AgentNode
      ELSE \E j \in Candidates(k) :
             RenderedCaller(k) = safeName(spans[j].name)

\* the declared parent that comes first in c's parentId among the active
FirstDeclared(k) ==
  LET ids == spans[k].parentId.ids
      first == CHOOSE n \in 1..Len(ids) :
                 /\ \E j \in Candidates(k) : spans[j].id = ids[n]
                 /\ \A m \in 1..(n - 1) :
                      \A j \in Candidates(k) : spans[j].id # ids[m]
  IN CHOOSE j \in Candidates(k) : spans[j].id = ids[first]

\* C19: when several declared parents of a span are active at its start,
\* the caller rendered is the one that comes first in the span's parentId,
\* wherever the parents are in the span list.
C19_FirstInParentOrder ==
  seq # << >> =>
    \A k \in 1..Len(spans) :
      Cardinality(Candidates(k)) >= 2 =>
        RenderedCaller(k) = safeName(spans[FirstDeclared(k)].name)

\* the position in the span list of the span the j-th call line renders
RenderedSpan(j) ==
  CHOOSE k \in 1..Len(spans) : safeName(spans[k].name) = SeqCallLines[j].b

\* C20: the sequence diagram is a function of the span list: it renders
\* every span once, in ascending startTime order, spans with the same
\* startTime in list order, and rendering the list again gives the same
\* lines.
C20_StableByStartTime ==
  seq # << >> =>
    /\ Len(SeqCallLines) = Len(spans)
    /\ \A i \in 1..Len(SeqCallLines) : \A j \in (i + 1)..Len(SeqCallLines) :
         LET a == RenderedSpan(i)
             b == RenderedSpan(j)
         IN \/ spans[a].startTime < spans[b].startTime
            \/ spans[a].startTime = spans[b].startTime /\ a < b
    /\ seq = generateRuntimeSequence(spans)

\* a rendered list that is not in start order and has two spans that start
\* together
C20_Witness ==
  /\ seq # << >>
  /\ Len(spans) = 3
  /\ spans[1].startTime > spans[2].startTime
  /\ spans[2].startTime = spans[3].startTime

\* the record console.warn leaves in the logs when the payload is rejected
InvalidPayloadWarning ==
  LogRecord("warn", <<"Received invalid graph payload">>)

\* C22: when a program publishes a graph payload that is not JSON, the
\* host's runtimeSpans, status, apiError and current run id stay as they
\* were, no invocation's program is ended or made to throw by it, and the
\* only effect in the host is at most one warn record at the end of logs.
C22_Step ==
  \A i \in RunIds : \A payload \in Payloads(i) :
    (ProgPublish(i, payload) /\ ~payload.json)
      => /\ UNCHANGED <<runtimeSpans, status, apiError, executionIdRef,
                        userInputRequest, phase, err, requests>>
         /\ \/ logs' = logs
            \/ logs' = Append(logs, InvalidPayloadWarning)

C22_MalformedPayloadSwallowed == [][C22_Step]_vars

\* the current run is still RUNNING after the host warned about a payload,
\* and it holds the spans it held before
C22_Witness ==
  /\ status = "RUNNING"
  /\ executionIdRef # NoRun
  /\ phase[executionIdRef] = "running"
  /\ Len(logs) > 1
  /\ logs[Len(logs)] = InvalidPayloadWarning
  /\ ~runtimeSpans.null
  /\ Len(runtimeSpans.spans) = 1

\* an invocation is in its Run phase from the patching of the console to
\* its finally block
InRunPhase(i) == phase[i] \in {"running", "awaiting", "finished", "threw"}

\* C25: no executeCode invocation patches the console while the
\* interception of an earlier invocation is still installed: when an
\* invocation begins, the five console functions are the native ones and no
\* other invocation is in its Run phase.
C25_OneRedirectionAtATime ==
  [][\A i \in RunIds :
       (phase[i] = "none" /\ phase'[i] = "running")
          => /\ \A m \in Methods : console[m] = Native
             /\ \A j \in RunIds : ~InRunPhase(j)]_vars

\* every invocation has run its finally block
AllSettled == \A i \in RunIds : ~InRunPhase(i)

\* C26: the finally block of one invocation leaves the console functions
\* and hooks of another invocation that is still in its Run phase
\* installed, and once every invocation has run its finally block the five
\* console functions are the native ones again.
C26_Step ==
  /\ \A i \in RunIds : \A j \in RunIds \ {i} :
       (/\ Teardown(i)
        /\ InRunPhase(j)
        /\ console = patchConsole(j)
        /\ hooks = installHooks(j))
          => UNCHANGED <<console, hooks>>
  /\ AllSettled' => \A m \in Methods : console'[m] = Native

C26_TeardownUndoesOwnOnly == [][C26_Step]_vars

\* C27: executionIdRef holds a run id exactly when status is RUNNING.
C27_CurrentIffRunning == (executionIdRef # NoRun) <=> (status = "RUNNING")

\* C28: when handleRun resumes after executeCode settled (fulfilled or
\* rejected) for a run whose id is no longer in executionIdRef, the host's
\* status, logs, apiError, executionIdRef, userInputRequest and
\* runtimeSpans stay as they were.
C28_StaleCompletionIsSilent ==
  [][\A i \in RunIds :
       (handleRunSettled(i) /\ executionIdRef # i)
          => UNCHANGED <<status, logs, apiError, executionIdRef,
                         userInputRequest, runtimeSpans>>]_vars

\* the only run was stopped and its handleRun has since resumed: the stop
\* message is still the last record and the status is still IDLE
C28_Witness ==
  /\ phase[1] = "done"
  /\ phase[2] = "none"
  /\ status = "IDLE"
  /\ executionIdRef = NoRun
  /\ Len(logs) > 0
  /\ logs[Len(logs)] = LogRecord("system", <<"Execution stopped by user.">>)

\* a credential with no character other than the space
WhitespaceOnly(key) == \A k \in 1..Len(key) : key[k] = " "

\* C30: Run with an empty or whitespace-only geminiApiKey starts no
\* invocation of executeCode and leaves status, logs, runtimeSpans,
\* userInputRequest and executionIdRef unchanged, only opening the
\* "Gemini API Key Required" dialog; every invocation that begins is handed
\* a key that is not blank, so while a run is current the key injected for
\* it is not blank.
C30_Step ==
  /\ (handleRun /\ WhitespaceOnly(geminiApiKey))
        => /\ UNCHANGED <<status, logs, runtimeSpans, userInputRequest,
                          executionIdRef, phase, console, hooks,
                          processEnv>>
           /\ apiError' = "Gemini API Key Required"
  /\ \A i \in RunIds :
        (phase[i] = "none" /\ phase'[i] # "none")
           => /\ ~WhitespaceOnly(geminiApiKey)
              /\ processEnv' = geminiApiKey
  /\ executionIdRef' # NoRun => ~WhitespaceOnly(processEnv')

C30_NoRunWithoutCredential == [][C30_Step]_vars

\* Run was pressed with a key of one space saved: the dialog is open and
\* nothing has started
C30_Witness ==
  /\ geminiApiKey = <<" ">>
  /\ apiError = "Gemini API Key Required"
  /\ status = "IDLE"
  /\ executionIdRef = NoRun
  /\ \A i \in RunIds : phase[i] = "none"
  /\ processEnv = NoKey

\* the place among the call lines of the line that renders the span at
\* position k
CallPos(k) ==
  CHOOSE j \in 1..Len(SeqCallLines) :
    SeqCallLines[j].b = safeName(spans[k].name)

Stripped(name) == SelectSeq(name, LAMBDA c : c \in AlphaNumeric \cup {"_"})

\* C24: the identifier of every span's node in the dependency graph, and of
\* every span's participant in the sequence diagram, is the span's name
\* with the characters outside [A-Za-z0-9_] removed.  (The spans of a
\* dependency-graph input all start together, so both diagrams render them
\* in list order.)
C24_IdentifierIsStrippedName ==
  /\ dag # << >> =>
       \A k \in 1..Len(spans) :
         DagNodeLines[k + 2].a = Stripped(spans[k].name)
  /\ seq # << >> =>
       \A k \in 1..Len(spans) :
         SeqCallLines[k].b = Stripped(spans[k].name)

\* the positions of the records of logs that a view at this level is to
\* show, and the n-th of them
KeptAt(level) ==
  {k \in 1..Len(logs) : level = "DEBUG" \/ logs[k].type \in {"info", "error"}}
NthKept(level, n) ==
  CHOOSE k \in KeptAt(level) :
    Cardinality({h \in KeptAt(level) : h < k}) = n - 1

\* the view at a level shows the records it is to show, in the order of
\* logs, and nothing else
ViewInOrder(level) ==
  LET shown == filteredLogs(logs, level)
  IN /\ Len(shown) = Cardinality(KeptAt(level))
     /\ \A n \in 1..Len(shown) : shown[n] = logs[NthKept(level, n)]

\* C23: a console call that leaves a record in logs leaves it as the last
\* record of the full (DEBUG) view whatever the method, and as the last
\* record of the concise (INFO) view exactly when the method is info or
\* error: the records of log, debug and warn are not in the concise view.
\* Either view shows its records in the order of logs.
C23_Step ==
  /\ \A i \in RunIds, m \in Methods :
       (ProgConsole(i, m) /\ logs' # logs)
          => LET rec == LogRecord(LogType(m), <<"msg">>)
             IN /\ logs' = Append(logs, rec)
                /\ filteredLogs(logs', "DEBUG")
                     = Append(filteredLogs(logs, "DEBUG"), rec)
                /\ m \in {"info", "error"}
                     => filteredLogs(logs', "INFO")
                          = Append(filteredLogs(logs, "INFO"), rec)
                /\ m \in {"log", "debug", "warn"}
                     => filteredLogs(logs', "INFO")
                          = filteredLogs(logs, "INFO")
  /\ \A level \in LogLevels : ViewInOrder(level)'

C23_VisibilityByType == [][C23_Step]_vars

\* the panel is at INFO and shows only the info record of a run that also
\* logged a warning before it
C23_Witness ==
  /\ logLevel = "INFO"
  /\ Len(logs) = 3
  /\ logs[2].type = "warn"
  /\ logs[3].type = "info"
  /\ filteredLogs(logs, logLevel) = <<logs[3]>>
  /\ filteredLogs(logs, "DEBUG") = logs

\* the text has no piece that one of the three scans recognises
NoDeclaration == \A k \in 1..Len(code) : code[k].kind = "other"

\* C21: for a source text without any recognisable declaration the
\* inferrer returns the header and the "No Graph structure detected"
\* placeholder and nothing else, and the placeholder is in the result only
\* if the node, edge and conditional-edge scans found no node.
C21_PlaceholderIffNoNode ==
  staticDef # << >> =>
    /\ NoDeclaration =>
         staticDef = <<Line("graph TD", << >>, << >>, << >>), NoGraphLine>>
    /\ NoGraphLine \in Range(staticDef) => nodesUsed(code) = {}

====
